---- MODULE Spec2Model ----
(***************************************************************************)
(* Model of the visual memory engine (src/src/visual_memory.h):            *)
(* VisualMemory::start, process, recall and debug, and the learning        *)
(* thread VisualMemory::learnWorker with its recall publish step (Spec).   *)
(* CellSpec applies the update of one cell repeatedly with a constant      *)
(* reinforcement.  NarratorSpec iterates Narrator::script on its return    *)
(* value and ParticleSpec is one OrderParticles::runStep (both from        *)
(* src/unnamed/part_000).  Each specification leaves the variables of the  *)
(* others at their initial values.                                         *)
(*                                                                         *)
(* Numbers.  memory_t is a double.  Cell contents and reinforcement are    *)
(* kept in fixed point, Scale units per 1.0, every division truncating     *)
(* toward zero.  A recall value is an exact rational <<num, den>> in       *)
(* lowest terms with den > 0.  Floating-point rounding is not modelled.    *)
(* Vectors are sequences; the C++ index i is position i + 1.               *)
(*                                                                         *)
(* Granularity.  start(), process(), recall() and debug() are one step     *)
(* each; start() is called again only while no learn thread exists.  The   *)
(* image of debug() is kept as the channels written per cell.  The worker  *)
(* takes one step per sample slot (the slot's reads of motion and          *)
(* luminance, the gate, the frame lookup and the loop over its cells) and  *)
(* one step per dense pixel of the publish loop, so that a reader can see  *)
(* the recall buffer between two of its writes.                            *)
(*                                                                         *)
(* Undefined behaviour.  A write past the end of recallAccumulator either  *)
(* lands outside the vector (it is lost to the accumulator) or ends the    *)
(* process; an access through a mapping that is MAP_FAILED ends the        *)
(* process.  A process that ended is pc = "crashed" and takes no step.     *)
(* recallTolerance is never read by the code and is left out.              *)
(***************************************************************************)
EXTENDS Integers, Sequences, FiniteSets, TLC

\* ---- sizes explored ----
kSamples == 2          \* CameraSampler8Q::kSamples, number of sample slots
TotalPixels == 2       \* pixelInfo.size(), the sparse pixel space
MaxSweeps == 2         \* sweeps of the learn worker that are explored
MaxState == 71         \* Narrator: script() is entered with a state in -1 .. MaxState
MaxBangs == 2          \* Narrator: config value bangCount is in 0 .. MaxBangs
NumParticles == 3      \* OrderParticles: appearance.size()
NumUpdates == 1000     \* updates of one cell that are explored in a single-cell run
UDen == 2              \* prng.uniform() returns u = n / UDen, n in 0 .. UDen-1
Scale == 1000          \* fixed-point units per 1.0 of memory_t

\* ---- program constants ----
kMotionThreshold == 100
kShortTermPermeabilityInv == 10      \* kShortTermPermeability = 1e-1
kLongTermPermeabilityInv == 10000    \* kLongTermPermeability = 1e-4
SymmetrySeed == 1000                 \* symmetry after OrderParticles::reseed
SymmetryStart == 10                  \* symmetry at the start of story state 50
SymmetryEnd == 4                     \* symmetry at which the loop of state 50 ends
LumaMax == 255                       \* uint8_t luma; 65025 = 255 * 255

Slots == 0 .. (kSamples - 1)
Pixels == 0 .. (TotalPixels - 1)

\* ---- input domains ----
MotionValues == {0, kMotionThreshold}
LumaValues == {LumaMax}
Black == <<0, 0, 0>>
Bright == <<2, 1, 1>>
Colors == {Black, Bright}
\* what tap->get returns: a frame of colors by sparse pixel index, or none
NoFrame == [available |-> FALSE, colors |-> [p \in Pixels |-> Black]]
Frames == {[available |-> TRUE, colors |-> [p \in Pixels |-> IF p % 2 = 0 THEN Bright ELSE Black]]}
Draws == 0 .. (UDen - 1)

\* ---- arithmetic helpers ----
Abs(x) == IF x < 0 THEN -x ELSE x
Min(a, b) == IF a < b THEN a ELSE b

\* double division, truncated toward zero so that the sign is kept
Div(a, b) == IF a >= 0 THEN a \div b ELSE -((-a) \div b)

RECURSIVE Gcd(_, _)
Gcd(a, b) == IF b = 0 THEN a ELSE Gcd(b, a % b)

RatNorm(n, d) ==
    LET g == Gcd(Abs(n), Abs(d))
    IN  IF d < 0 THEN <<(-n) \div g, (-d) \div g>> ELSE <<n \div g, d \div g>>
RatMul(a, b) == RatNorm(a[1] * b[1], a[2] * b[2])
RatAdd(a, b) ==
    LET l == (a[2] \div Gcd(a[2], b[2])) * b[2]
    IN  RatNorm(a[1] * (l \div a[2]) + b[1] * (l \div b[2]), l)
RatSub(a, b) == RatAdd(a, <<-b[1], b[2]>>)
RatZero == <<0, 1>>
RatMinusOne == <<-1, 1>>

\* ---- cells and files ----
ZeroCell == [shortTerm |-> 0, longTerm |-> 0]
RampCell(k) == [shortTerm |-> (k + 1) * Scale, longTerm |-> ((k + 1) * Scale) \div 2]
MixedCell(k) == [shortTerm |-> 0, longTerm |-> IF k % 2 = 0 THEN Scale ELSE -Scale]
FullCells == kSamples * TotalPixels
FileLens == {FullCells}
NoFile == [exists |-> FALSE, cells |-> <<>>]
InitialFiles ==
    {NoFile}
    \cup {[exists |-> TRUE, cells |-> [k \in 1 .. n |-> RampCell(k - 1)]] : n \in FileLens}
    \cup {[exists |-> TRUE, cells |-> [k \in 1 .. FullCells |-> MixedCell(k - 1)]]}

VARIABLES
    pixelInfo,                \* runner->getPixelInfo(): isMapped() per sparse pixel
    file,                     \* the backing file at memoryPath
    origFile,                 \* the backing file as it was before start()
    startResult,              \* which step of start() failed, or "ok"
    denseToSparsePixelIndex,
    mappedMemory,             \* "unset", "mapped" or "MAP_FAILED"
    mappedMemorySize,
    recallBuffer,
    recallAccumulator,
    learnThread,              \* TRUE once the thread object exists
    sobelMotion,              \* sobel.motion[]
    luminanceBuffer,          \* luminance.buffer[]
    learnFlags,
    pc,                       \* position of the learn worker
    sampleIndex,
    denseIndex,               \* loop variable of the publish loop
    recallTotal,
    sweepCount,               \* sweeps completed so far (every sweepCount++)
    motion,                   \* the local motion read for each slot of this sweep
    updated,                  \* slots whose cells were updated in this sweep
    u,                        \* numerator of the last prng.uniform() draw
    image,                    \* the pixels of the last image written by debug()
    cellStart,                \* single-cell runs: the cell before the first update
    cell,                     \* single-cell runs: the cell being updated
    cellInput,                \* single-cell runs: the constant reinforcement
    updates,                  \* single-cell runs: updates applied so far
    narratorState,            \* Narrator: the state passed to script(), then its result
    scriptPc,                 \* Narrator: position inside script()
    symmetry,                 \* orderParticles.symmetry
    precursorDone,            \* precursor.isDone
    bangCount,                \* Narrator: bangCount of case 20
    bangIndex,                \* Narrator: loop variable i of case 20
    found,                    \* OrderParticles: pairs radiusSearch reports to each other
    close,                    \* OrderParticles: pairs with q2 < 1
    particle,                 \* OrderParticles: the outer loop variable i of runStep
    applied                   \* OrderParticles: displacements applied, by (visitor, hit)

cellVars == <<cellStart, cell, cellInput, updates>>

narratorVars == <<narratorState, scriptPc, symmetry, precursorDone, bangCount, bangIndex>>

particleVars == <<found, close, particle, applied>>

engineVars == <<pixelInfo, file, origFile, startResult, denseToSparsePixelIndex,
                mappedMemory, mappedMemorySize, recallBuffer, recallAccumulator,
                learnThread, sobelMotion, luminanceBuffer, learnFlags, pc,
                sampleIndex, denseIndex, recallTotal, sweepCount, motion, updated, u,
                image>>

vars == <<engineVars, cellVars, narratorVars, particleVars>>

workerVars == <<recallBuffer, recallAccumulator, learnFlags, pc, sampleIndex,
                denseIndex, recallTotal, sweepCount, motion, updated, u>>

denseSize == Len(denseToSparsePixelIndex)

\* the engine after construction, before start()
EngineInit(info, f) ==
    /\ pixelInfo = info
    /\ file = f
    /\ origFile = f
    /\ startResult = "none"
    /\ denseToSparsePixelIndex = <<>>
    /\ mappedMemory = "unset"
    /\ mappedMemorySize = 0
    /\ recallBuffer = <<>>
    /\ recallAccumulator = <<>>
    /\ learnThread = FALSE
    /\ sobelMotion = [s \in Slots |-> 0]
    /\ luminanceBuffer = [s \in Slots |-> 0]
    /\ learnFlags = [s \in Slots |-> FALSE]
    /\ pc = "idle"
    /\ sampleIndex = 0
    /\ denseIndex = 0
    /\ recallTotal = 0
    /\ sweepCount = 0
    /\ motion = [s \in Slots |-> 0]
    /\ updated = [s \in Slots |-> FALSE]
    /\ u = 0
    /\ image = <<>>

Particles == 0 .. (NumParticles - 1)

\* the narrator before script() is called with state s; the static
\* orderParticles is constructed with reseed(42)
NarratorInit(s) ==
    /\ narratorState = s
    /\ scriptPc = "call"
    /\ symmetry = SymmetrySeed
    /\ precursorDone = FALSE
    /\ bangCount = 0
    /\ bangIndex = 0

\* the particles before runStep, with fnd the pairs radiusSearch reports to
\* each other and cls those of them with q2 < 1
ParticlesInit(fnd, cls) ==
    /\ found = fnd
    /\ close = cls
    /\ particle = 0
    /\ applied = [v \in Particles, h \in Particles |-> 0]

Init ==
    /\ \E info \in [Pixels -> BOOLEAN], f \in InitialFiles : EngineInit(info, f)
    /\ cellStart = ZeroCell
    /\ cell = ZeroCell
    /\ cellInput = 0
    /\ updates = 0
    /\ NarratorInit(0)
    /\ ParticlesInit({}, {})

\* ---- VisualMemory::start ----

\* the densely packed pixel index of pixels 0 .. n-1, skipping unmapped pixels
RECURSIVE BuildDenseIndex(_, _)
BuildDenseIndex(info, n) ==
    IF n = 0 THEN <<>>
    ELSE IF info[n - 1] THEN Append(BuildDenseIndex(info, n - 1), n - 1)
         ELSE BuildDenseIndex(info, n - 1)

\* the index of an earlier start() kept, so that push_back appends to it
ClearedIndex_Kept(old) == old

\* denseToSparsePixelIndex.clear()
ClearedIndex(old) == <<>>

\* std::vector::resize: keeps the leading elements, value-initializes new ones
Resize(v, n, zero) == [k \in 1 .. n |-> IF k <= Len(v) THEN v[k] ELSE zero]

\* open(memoryPath, O_CREAT | O_RDWR): an absent file is created empty
OpenFile(f) == IF f.exists THEN f ELSE [exists |-> TRUE, cells |-> <<>>]

\* a resize that rewrites the whole file with zeros
Truncate_Reset(f, cells) == [f EXCEPT !.cells = [k \in 1 .. cells |-> ZeroCell]]

\* ftruncate(fd, cells * sizeof(Cell)): cuts the file or extends it with zeros
Truncate(f, cells) == [f EXCEPT !.cells = Resize(f.cells, cells, ZeroCell)]

\* the value mmap returns: MAP_FAILED on failure, and always for a zero length
MmapResult(cells, mapOk) == IF mapOk /\ cells > 0 THEN "mapped" ELSE "MAP_FAILED"

\* the test `if (!mappedMemory)` of line 155
MappingIsNull(m) == m = "NULL"

Start(openOk, truncOk, mapOk) ==
    /\ ~learnThread
    /\ origFile' = file
    /\ LET dense == ClearedIndex(denseToSparsePixelIndex)
                    \o BuildDenseIndex(pixelInfo, TotalPixels)
           cells == kSamples * Len(dense)
           opened == OpenFile(file)
           mapping == MmapResult(cells, mapOk)
       IN  /\ denseToSparsePixelIndex' = dense
           /\ recallBuffer' = Resize(recallBuffer, TotalPixels, RatZero)
           /\ recallAccumulator' = Resize(recallAccumulator, Len(dense), 0)
           /\ IF ~openOk
              THEN /\ startResult' = "open_failed"
                   /\ UNCHANGED <<file, mappedMemory, mappedMemorySize, learnThread, pc>>
              ELSE IF ~truncOk
              THEN /\ startResult' = "truncate_failed"
                   /\ file' = opened
                   /\ UNCHANGED <<mappedMemory, mappedMemorySize, learnThread, pc>>
              ELSE /\ file' = Truncate(opened, cells)
                   /\ mappedMemorySize' = cells
                   /\ mappedMemory' = mapping
                   /\ IF MappingIsNull(mapping)
                      THEN /\ startResult' = "map_failed"
                           /\ UNCHANGED <<learnThread, pc>>
                      ELSE /\ startResult' = IF mapping = "mapped" THEN "ok" ELSE "map_failed"
                           /\ learnThread' = TRUE
                           /\ pc' = "sweep"
    /\ UNCHANGED <<pixelInfo, sobelMotion, luminanceBuffer, learnFlags,
                   sampleIndex, denseIndex, recallTotal, sweepCount, motion, updated, u>>
    /\ UNCHANGED <<image, cellVars, narratorVars, particleVars>>

\* ---- VisualMemory::process ----

\* one video chunk refreshes the motion and luminance of one sample slot
Process(slot, m, l) ==
    /\ pc # "crashed"
    /\ sobelMotion' = [sobelMotion EXCEPT ![slot] = m]
    /\ luminanceBuffer' = [luminanceBuffer EXCEPT ![slot] = l]
    /\ UNCHANGED <<pixelInfo, file, origFile, startResult, denseToSparsePixelIndex,
                   mappedMemory, mappedMemorySize, learnThread>>
    /\ UNCHANGED workerVars
    /\ UNCHANGED <<image, cellVars, narratorVars, particleVars>>

\* ---- VisualMemory::reinforcementFunction ----

reinforcementFunction(luminance, led) ==
    LET r == Min(1, led[1])
        g == Min(1, led[2])
        b == Min(1, led[3])
    IN  Div(Scale * (luminance * luminance) * (r * r + g * g + b * b),
            (LumaMax * LumaMax) * 3)

\* ---- VisualMemory::learnWorker ----

\* the comparison with its operands exchanged
IsLearning_Swapped(m, draw) == (draw * draw) * kMotionThreshold >= m * (UDen * UDen)

\* motion / kMotionThreshold >= r, with r = (draw / UDen)^2
IsLearning(m, draw) == m * (UDen * UDen) >= (draw * draw) * kMotionThreshold

\* the decay applied after the reinforcement is added
ShortTermUpdate_DecayAfter(shortTerm, reinforcement) ==
    (shortTerm + reinforcement) - Div(shortTerm + reinforcement, kShortTermPermeabilityInv)

\* (state.shortTerm - state.shortTerm * kShortTermPermeability) + reinforcement
ShortTermUpdate(shortTerm, reinforcement) ==
    (shortTerm - Div(shortTerm, kShortTermPermeabilityInv)) + reinforcement

\* the long-term step taken away from shortTerm
LongTermUpdate_Away(shortTerm, longTerm) ==
    LET r == shortTerm - longTerm
    IN  longTerm - Div(Div(Div(r * r, Scale) * r, Scale), kLongTermPermeabilityInv)

\* longTerm += (r * r * r) * kLongTermPermeability, r in Scale units
LongTermUpdate(shortTerm, longTerm) ==
    LET r == shortTerm - longTerm
    IN  longTerm + Div(Div(Div(r * r, Scale) * r, Scale), kLongTermPermeabilityInv)

UpdateCell(state, reinforcement) ==
    LET s == ShortTermUpdate(state.shortTerm, reinforcement)
    IN  [shortTerm |-> s, longTerm |-> LongTermUpdate(s, state.longTerm)]

\* the cell index without the slot's offset
CellIndex_NoSlot(slot, di) == di

\* cell[denseIndex] with cell = &memoryBuffer[sampleIndex * denseSize]
CellIndex(slot, di) == slot * denseSize + di

\* the index used for recallAccumulator in the learning loop (line 268)
AccumulatorIndex(di, sparseIndex) == sparseIndex

\* One iteration of the loop over denseIndex (lines 250-270) on the loop state
\* st.  An access through a failed mapping ends the process.  A write past the
\* end of recallAccumulator is undefined: under ub = "lost" it lands outside the
\* vector, under ub = "crash" it ends the process.
LearnCell(st, slot, di, m, luma, frame, ub) ==
    IF st.crashed THEN st
    ELSE IF mappedMemory # "mapped" THEN [st EXCEPT !.crashed = TRUE]
    ELSE
      LET sparseIndex == denseToSparsePixelIndex[di + 1]
          pixel == frame.colors[sparseIndex]
          c == CellIndex(slot, di)
          state == UpdateCell(st.cells[c + 1], reinforcementFunction(luma, pixel))
          acc == m * state.longTerm
          ai == AccumulatorIndex(di, sparseIndex)
          written == [st EXCEPT !.cells[c + 1] = state]
      IN  IF ai < Len(st.acc)
          THEN [written EXCEPT !.acc[ai + 1] = @ + acc, !.total = @ + acc]
          ELSE IF ub = "crash" THEN [written EXCEPT !.crashed = TRUE]
          ELSE [written EXCEPT !.total = @ + acc]

RECURSIVE LearnCells(_, _, _, _, _, _, _)
LearnCells(st, slot, n, m, luma, frame, ub) ==
    IF n = 0 THEN st
    ELSE LearnCell(LearnCells(st, slot, n - 1, m, luma, frame, ub),
                   slot, n - 1, m, luma, frame, ub)

\* the accumulator carried over from the previous sweep
ClearedAccumulator_Kept(acc) == acc

\* std::fill(recallAccumulator.begin(), recallAccumulator.end(), 0)
ClearedAccumulator(acc) == [k \in 1 .. Len(acc) |-> 0]

\* top of the while loop (lines 216-220)
SweepBegin ==
    /\ pc = "sweep"
    /\ sweepCount < MaxSweeps
    /\ recallTotal' = 0
    /\ recallAccumulator' = ClearedAccumulator(recallAccumulator)
    /\ sampleIndex' = 0
    /\ updated' = [s \in Slots |-> FALSE]
    /\ motion' = [s \in Slots |-> 0]
    /\ pc' = "slots"
    /\ UNCHANGED <<pixelInfo, file, origFile, startResult, denseToSparsePixelIndex,
                   mappedMemory, mappedMemorySize, learnThread, sobelMotion,
                   luminanceBuffer, recallBuffer, learnFlags, denseIndex,
                   sweepCount, u>>
    /\ UNCHANGED <<image, cellVars, narratorVars, particleVars>>

\* the publish loop entered at its second iteration
NextSlot_SkipFirst ==
    /\ sampleIndex' = sampleIndex + 1
    /\ pc' = IF sampleIndex + 1 = kSamples THEN "publish" ELSE "slots"
    /\ denseIndex' = 1

\* sampleIndex++ and the loop test of line 222; the publish loop that follows
\* the last slot starts at denseIndex = 0 (line 278)
NextSlot ==
    /\ sampleIndex' = sampleIndex + 1
    /\ pc' = IF sampleIndex + 1 = kSamples THEN "publish" ELSE "slots"
    /\ denseIndex' = 0

\* one iteration of the loop over sample slots (lines 222-271)
SlotStep(draw, frame, ub) ==
    /\ pc = "slots"
    /\ sampleIndex < kSamples
    /\ LET m == sobelMotion[sampleIndex]
           luma == luminanceBuffer[sampleIndex]
           isLearning == IsLearning(m, draw)
       IN  /\ u' = draw
           /\ motion' = [motion EXCEPT ![sampleIndex] = m]
           /\ learnFlags' = [learnFlags EXCEPT ![sampleIndex] = isLearning]
           /\ IF ~isLearning \/ ~frame.available
              THEN /\ NextSlot
                   /\ UNCHANGED <<file, recallAccumulator, recallTotal, updated>>
              ELSE LET st == LearnCells([cells |-> file.cells, acc |-> recallAccumulator,
                                         total |-> recallTotal, crashed |-> FALSE],
                                        sampleIndex, denseSize, m, luma, frame, ub)
                   IN  /\ file' = [file EXCEPT !.cells = st.cells]
                       /\ recallAccumulator' = st.acc
                       /\ recallTotal' = st.total
                       /\ updated' = [updated EXCEPT ![sampleIndex] = TRUE]
                       /\ IF st.crashed
                          THEN /\ pc' = "crashed"
                               /\ UNCHANGED <<sampleIndex, denseIndex>>
                          ELSE NextSlot
    /\ UNCHANGED <<pixelInfo, origFile, startResult, denseToSparsePixelIndex,
                   mappedMemory, mappedMemorySize, learnThread, sobelMotion,
                   luminanceBuffer, recallBuffer, sweepCount>>
    /\ UNCHANGED <<image, cellVars, narratorVars, particleVars>>

\* the scale without the fallback for a zero total
RecallScale_Unguarded(total) == IF total # 0 THEN RatNorm(denseSize, total) ELSE <<denseSize, 1>>

\* recallScale of line 277
RecallScale(total) == IF total # 0 THEN RatNorm(denseSize, total) ELSE RatZero

\* the published value without the - 1.0
RecallValue_NoOffset(acc, total) == RatMul(<<acc, 1>>, RecallScale(total))

\* recallAccumulator[denseIndex] * recallScale - 1.0
RecallValue(acc, total) == RatSub(RatMul(<<acc, 1>>, RecallScale(total)), <<1, 1>>)

\* the dense index itself used as the index into recallBuffer
PublishIndex_Dense(di) == di

\* sparseIndex of line 279, the index into recallBuffer of line 280
PublishIndex(di) == denseToSparsePixelIndex[di + 1]

\* one iteration of the publish loop (lines 278-281)
PublishStep ==
    /\ pc = "publish"
    /\ denseIndex < denseSize
    /\ LET sparseIndex == PublishIndex(denseIndex)
       IN  recallBuffer' = [recallBuffer EXCEPT ![sparseIndex + 1] =
                               RecallValue(recallAccumulator[denseIndex + 1], recallTotal)]
    /\ denseIndex' = denseIndex + 1
    /\ UNCHANGED <<pixelInfo, file, origFile, startResult, denseToSparsePixelIndex,
                   mappedMemory, mappedMemorySize, learnThread, sobelMotion,
                   luminanceBuffer, recallAccumulator, learnFlags, pc, sampleIndex,
                   recallTotal, sweepCount, motion, updated, u>>
    /\ UNCHANGED <<image, cellVars, narratorVars, particleVars>>

\* end of the publish loop and of the sweep (lines 278, 287)
SweepEnd ==
    /\ pc = "publish"
    /\ denseIndex = denseSize
    /\ sweepCount' = sweepCount + 1
    /\ pc' = "sweep"
    /\ UNCHANGED <<pixelInfo, file, origFile, startResult, denseToSparsePixelIndex,
                   mappedMemory, mappedMemorySize, learnThread, sobelMotion,
                   luminanceBuffer, recallBuffer, recallAccumulator, learnFlags,
                   sampleIndex, denseIndex, recallTotal, motion, updated, u>>
    /\ UNCHANGED <<image, cellVars, narratorVars, particleVars>>

Worker ==
    \/ SweepBegin
    \/ \E draw \in Draws, frame \in Frames \cup {NoFrame}, ub \in {"lost", "crash"} :
          SlotStep(draw, frame, ub)
    \/ PublishStep
    \/ SweepEnd

\* ---- VisualMemory::recall ----

\* returns a reference to recallBuffer: the reader sees the buffer as it is
recall ==
    /\ pc # "crashed"
    /\ UNCHANGED vars

\* ---- VisualMemory::debug ----

\* cellMax of lines 313-317: the largest longTerm of the cells 0 .. n-1
RECURSIVE CellMax(_, _)
CellMax(cells, n) ==
    IF n = 1 THEN cells[1].longTerm
    ELSE LET m == CellMax(cells, n - 1)
             l == cells[n].longTerm
         IN  IF m < l THEN l ELSE m

\* int(std::min<memory_t>(255.5f, s*s*s*s * 255.0f + 0.5f)) with
\* s = v * (1.0 / cellMax).  For cellMax = 0 the scale is infinite and s is
\* infinite or (for v = 0) NaN: s^4 * 255 + 0.5 is then +infinity or NaN,
\* neither is below 255.5 and std::min returns 255.5.
Quantize(v, cellMax) ==
    IF cellMax = 0 THEN 255
    ELSE LET q == Div(v * Scale, cellMax)
             q2 == (q * q) \div Scale
             q4 == (q2 * q2) \div Scale
         IN  IF Abs(q) >= Scale THEN 255 ELSE (q4 * 255 + Scale \div 2) \div Scale

\* the three channels written for each cell (lines 323-343), by cell index;
\* the position of the cell's pixel in the PNG is left out
DebugImage(cells) ==
    LET cellMax == CellMax(cells, Len(cells))
    IN  [c \in 1 .. Len(cells) |->
            LET shortTermI == Quantize(cells[c].shortTerm, cellMax)
                longTermI == Quantize(cells[c].longTerm, cellMax)
            IN  <<shortTermI, longTermI, longTermI>>]

\* debug() once start() has assigned the mapping; reading through a mapping
\* that is MAP_FAILED ends the process
debug ==
    /\ pc # "crashed"
    /\ mappedMemory # "unset"
    /\ IF mappedMemory = "mapped"
       THEN /\ image' = DebugImage(file.cells)
            /\ pc' = pc
       ELSE /\ pc' = "crashed"
            /\ image' = image
    /\ UNCHANGED <<pixelInfo, file, origFile, startResult, denseToSparsePixelIndex,
                   mappedMemory, mappedMemorySize, recallBuffer, recallAccumulator,
                   learnThread, sobelMotion, luminanceBuffer, learnFlags,
                   sampleIndex, denseIndex, recallTotal, sweepCount, motion, updated, u>>
    /\ UNCHANGED <<cellVars, narratorVars, particleVars>>

Next ==
    \/ \E openOk \in BOOLEAN, truncOk \in BOOLEAN, mapOk \in BOOLEAN :
          Start(openOk, truncOk, mapOk)
    \/ \E slot \in Slots, m \in MotionValues, l \in LumaValues : Process(slot, m, l)
    \/ recall
    \/ debug
    \/ Worker

Spec == Init /\ [][Next]_vars

\* ---- one cell under a constant reinforcement ----

\* reinforcementFunction returns values in [0, 1]
CellInputs == {0, Scale \div 2, Scale}

\* a zero cell (fresh file) and cells as an existing file holds them
CellStarts ==
    {ZeroCell} \cup {RampCell(k) : k \in 0 .. (FullCells - 1)} \cup {MixedCell(k) : k \in 0 .. 1}

CellInit ==
    /\ EngineInit([p \in Pixels |-> TRUE], NoFile)
    /\ cellStart \in CellStarts
    /\ cell = cellStart
    /\ cellInput \in CellInputs
    /\ updates = 0
    /\ NarratorInit(0)
    /\ ParticlesInit({}, {})

\* the update of one cell (lines 255-261) with the same reinforcement again
CellUpdate ==
    /\ updates < NumUpdates
    /\ cell' = UpdateCell(cell, cellInput)
    /\ updates' = updates + 1
    /\ UNCHANGED <<engineVars, cellStart, cellInput, narratorVars, particleVars>>

CellSpec == CellInit /\ [][CellUpdate]_vars

\* ---- Narrator::script (src/unnamed/part_000) ----
\* script(st) is entered at scriptPc = "call" with st = narratorState; its
\* return value becomes narratorState for the next call.  crossfade, delay and
\* attention run frames and return; delayForever does not return.

DebugStates == 1 .. 6
NormalStates == {10, 20, 30, 40, 50, 60}
HasCase(s) == s = 0 \/ s \in DebugStates \/ s \in NormalStates
StartStates == (-1) .. MaxState

\* return from script() with value s
Return(s) ==
    /\ narratorState' = s
    /\ scriptPc' = "call"

\* default: return 0
ScriptDefault ==
    /\ scriptPc = "call"
    /\ ~HasCase(narratorState)
    /\ Return(0)
    /\ UNCHANGED <<symmetry, precursorDone, bangCount, bangIndex>>
    /\ UNCHANGED <<engineVars, cellVars, particleVars>>

\* case 0: return 10
Case0 ==
    /\ scriptPc = "call"
    /\ narratorState = 0
    /\ Return(10)
    /\ UNCHANGED <<symmetry, precursorDone, bangCount, bangIndex>>
    /\ UNCHANGED <<engineVars, cellVars, particleVars>>

\* cases 1 to 6: crossfade to one effect, then delayForever()
CaseDebug ==
    /\ scriptPc = "call"
    /\ narratorState \in DebugStates
    /\ scriptPc' = "forever"
    /\ UNCHANGED <<narratorState, symmetry, precursorDone, bangCount, bangIndex>>
    /\ UNCHANGED <<engineVars, cellVars, particleVars>>

\* a frame inside delayForever()
DelayForever ==
    /\ scriptPc = "forever"
    /\ UNCHANGED vars

\* case 10 up to the wait loop: precursor.reseed, crossfade, delay
Case10Begin(done) ==
    /\ scriptPc = "call"
    /\ narratorState = 10
    /\ precursorDone' = done
    /\ scriptPc' = "wait"
    /\ UNCHANGED <<narratorState, symmetry, bangCount, bangIndex>>
    /\ UNCHANGED <<engineVars, cellVars, particleVars>>

\* while (!precursor.isDone) doFrame(): one frame
Case10Frame(done) ==
    /\ scriptPc = "wait"
    /\ ~precursorDone
    /\ precursorDone' = done
    /\ UNCHANGED <<narratorState, scriptPc, symmetry, bangCount, bangIndex>>
    /\ UNCHANGED <<engineVars, cellVars, particleVars>>

\* case 10 after the wait loop: return 20
Case10Return ==
    /\ scriptPc = "wait"
    /\ precursorDone
    /\ Return(20)
    /\ UNCHANGED <<symmetry, precursorDone, bangCount, bangIndex>>
    /\ UNCHANGED <<engineVars, cellVars, particleVars>>

\* case 20: bangCount is read from the configuration
Case20Begin(count) ==
    /\ scriptPc = "call"
    /\ narratorState = 20
    /\ bangCount' = count
    /\ bangIndex' = 0
    /\ scriptPc' = "bang"
    /\ UNCHANGED <<narratorState, symmetry, precursorDone>>
    /\ UNCHANGED <<engineVars, cellVars, particleVars>>

\* one iteration of the loop over the bangs
Case20Bang ==
    /\ scriptPc = "bang"
    /\ bangIndex < bangCount
    /\ bangIndex' = bangIndex + 1
    /\ UNCHANGED <<narratorState, scriptPc, symmetry, precursorDone, bangCount>>
    /\ UNCHANGED <<engineVars, cellVars, particleVars>>

\* case 20 after the loop: attention, return 30
Case20Return ==
    /\ scriptPc = "bang"
    /\ ~(bangIndex < bangCount)
    /\ Return(30)
    /\ UNCHANGED <<symmetry, precursorDone, bangCount, bangIndex>>
    /\ UNCHANGED <<engineVars, cellVars, particleVars>>

\* case 30: ringsA, return 40
Case30 ==
    /\ scriptPc = "call"
    /\ narratorState = 30
    /\ Return(40)
    /\ UNCHANGED <<symmetry, precursorDone, bangCount, bangIndex>>
    /\ UNCHANGED <<engineVars, cellVars, particleVars>>

\* case 40: ringsB, return 50
Case40 ==
    /\ scriptPc = "call"
    /\ narratorState = 40
    /\ Return(50)
    /\ UNCHANGED <<symmetry, precursorDone, bangCount, bangIndex>>
    /\ UNCHANGED <<engineVars, cellVars, particleVars>>

\* case 50 up to its loop: reseed, symmetry = 10, crossfade
Case50Begin ==
    /\ scriptPc = "call"
    /\ narratorState = 50
    /\ symmetry' = SymmetryStart
    /\ scriptPc' = "order"
    /\ UNCHANGED <<narratorState, precursorDone, bangCount, bangIndex>>
    /\ UNCHANGED <<engineVars, cellVars, particleVars>>

\* the loop of state 50 left one step early
OrderLoopContinues_Early(sym) == sym > SymmetryEnd + 1

\* while (orderParticles.symmetry > 4)
OrderLoopContinues(sym) == sym > SymmetryEnd

\* one iteration of the loop of case 50: attention, symmetry--
Case50Step ==
    /\ scriptPc = "order"
    /\ OrderLoopContinues(symmetry)
    /\ symmetry' = symmetry - 1
    /\ UNCHANGED <<narratorState, scriptPc, precursorDone, bangCount, bangIndex>>
    /\ UNCHANGED <<engineVars, cellVars, particleVars>>

\* case 50 after the loop: a last attention, return 60
Case50Return ==
    /\ scriptPc = "order"
    /\ ~OrderLoopContinues(symmetry)
    /\ Return(60)
    /\ UNCHANGED <<symmetry, precursorDone, bangCount, bangIndex>>
    /\ UNCHANGED <<engineVars, cellVars, particleVars>>

\* case 60: partnerDance, return 70
Case60 ==
    /\ scriptPc = "call"
    /\ narratorState = 60
    /\ Return(70)
    /\ UNCHANGED <<symmetry, precursorDone, bangCount, bangIndex>>
    /\ UNCHANGED <<engineVars, cellVars, particleVars>>

NarratorStart ==
    /\ EngineInit([p \in Pixels |-> TRUE], NoFile)
    /\ cellStart = ZeroCell
    /\ cell = ZeroCell
    /\ cellInput = 0
    /\ updates = 0
    /\ \E s \in StartStates : NarratorInit(s)
    /\ ParticlesInit({}, {})

NarratorNext ==
    \/ ScriptDefault
    \/ Case0
    \/ CaseDebug
    \/ DelayForever
    \/ \E done \in BOOLEAN : Case10Begin(done)
    \/ \E done \in BOOLEAN : Case10Frame(done)
    \/ Case10Return
    \/ \E count \in 0 .. MaxBangs : Case20Begin(count)
    \/ Case20Bang
    \/ Case20Return
    \/ Case30
    \/ Case40
    \/ Case50Begin
    \/ Case50Step
    \/ Case50Return
    \/ Case60

NarratorSpec == NarratorStart /\ [][NarratorNext]_vars

\* the narrator keeps running, and the precursor finishes in some frame
NarratorLive ==
    NarratorSpec /\ WF_vars(NarratorNext) /\ WF_vars(Case10Frame(TRUE))

\* ---- OrderParticles::runStep (src/unnamed/part_000) ----
\* Which particles a radius search finds, and which of them are within the
\* interaction range (q2 < 1), is fixed for the step: found and close are
\* symmetric relations on distinct particles, close within found.  The order
\* of the hits in the result vector is any order.  The displacement itself is
\* not computed; applied counts the times it is applied per (visitor, hit).

Pairs == {pr \in SUBSET Particles : Cardinality(pr) = 2}

\* the particles index.radiusSearch reports around particle v, v itself included
HitSet(v) == {v} \cup {h \in Particles : {v, h} \in found}

\* the hits vector: the particles of HitSet(v) in any order
HitOrders(v) ==
    {hits \in [1 .. Cardinality(HitSet(v)) -> HitSet(v)] :
        \A j, k \in 1 .. Cardinality(HitSet(v)) : j # k => hits[j] # hits[k]}

\* q2 < 1.0f; a particle is at distance 0 from itself
InRange(v, h) == v = h \/ {v, h} \in close

\* the test `hits[i].first <= i` of line 174: the inner loop declares its own
\* i, so the i compared with is the position k in hits, not the particle v
OnlyCountOnce(v, k, first) == first <= k

\* the inner loop over hits[0 .. n-1] for the particle v (lines 173-202)
RECURSIVE ApplyHits(_, _, _, _)
ApplyHits(app, v, hits, n) ==
    IF n = 0 THEN app
    ELSE LET before == ApplyHits(app, v, hits, n - 1)
             k == n - 1
             first == hits[k + 1]
         IN  IF OnlyCountOnce(v, k, first) THEN before
             ELSE IF InRange(v, first) THEN [before EXCEPT ![v, first] = @ + 1]
             ELSE before

\* one iteration of the outer loop over the particles (lines 163-205)
RunStepParticle(hits) ==
    /\ particle < NumParticles
    /\ applied' = ApplyHits(applied, particle, hits, Len(hits))
    /\ particle' = particle + 1
    /\ UNCHANGED <<found, close>>
    /\ UNCHANGED <<engineVars, cellVars, narratorVars>>

ParticleStart ==
    /\ EngineInit([p \in Pixels |-> TRUE], NoFile)
    /\ cellStart = ZeroCell
    /\ cell = ZeroCell
    /\ cellInput = 0
    /\ updates = 0
    /\ NarratorInit(0)
    /\ \E fnd \in SUBSET Pairs : \E cls \in SUBSET fnd : ParticlesInit(fnd, cls)

ParticleNext == \E hits \in HitOrders(particle) : RunStepParticle(hits)

ParticleSpec == ParticleStart /\ [][ParticleNext]_vars

\* the learn thread is scheduled as long as it can run
LiveSpec == Spec /\ WF_vars(Worker)

TypeOK ==
    /\ pc \in {"idle", "sweep", "slots", "publish", "crashed"}
    /\ sampleIndex \in 0 .. kSamples
    /\ denseIndex \in 0 .. TotalPixels
    /\ sweepCount \in 0 .. MaxSweeps

\* ---- vocabulary of the properties ----

\* the worker is between two sweeps: the last sweep is complete and published
SweepDone == pc = "sweep" /\ sweepCount > 0

DenseRange == 0 .. (denseSize - 1)
Sparse(di) == denseToSparsePixelIndex[di + 1]
Recall(di) == recallBuffer[Sparse(di) + 1]

\* sum of the recall values of the dense pixels 0 .. n-1
RECURSIVE RecallSum(_)
RecallSum(n) == IF n = 0 THEN RatZero ELSE RatAdd(RecallSum(n - 1), Recall(n - 1))

\* motion x longTerm' of dense pixel di, summed over the slots 0 .. n-1 that
\* were updated in this sweep
RECURSIVE Evidence(_, _)
Evidence(di, n) ==
    IF n = 0 THEN 0
    ELSE Evidence(di, n - 1)
         + (IF updated[n - 1]
            THEN motion[n - 1] * file.cells[(n - 1) * denseSize + di + 1].longTerm
            ELSE 0)

AllMotionZero == \A s \in Slots : motion[s] = 0
NoLearnFlag == \A s \in Slots : ~learnFlags[s]

\* ---- C1 ----
\* C1: after a completed sweep with recallTotal # 0 the mean of recallBuffer
\* over the dense pixels is exactly 0, for every pixel mapping.
C1_MeanZero ==
    (SweepDone /\ recallTotal # 0) => RecallSum(denseSize) = RatZero

\* ---- C2 ----
\* C2: after a completed sweep the value published for dense pixel i is the
\* evidence accumulated for that same pixel (motion x longTerm' over the slots
\* that learned) times scale, minus 1.
C2_PublishedIsEvidence ==
    SweepDone =>
        \A di \in DenseRange : Recall(di) = RecallValue(Evidence(di, kSamples), recallTotal)

\* ---- C3 ----
\* C3: once the thread runs, the recall buffer is written only by the publish
\* loop, which starts after the last slot; the sweep starts from a zeroed
\* accumulator and total; and when the sweep is complete every dense pixel
\* holds the value of this sweep's accumulator, -1 where nothing accumulated.
C3_PublishOncePerSweep ==
    /\ [][(learnThread /\ recallBuffer' # recallBuffer)
            => (pc = "publish" /\ sampleIndex = kSamples /\ denseIndex < denseSize
                /\ \A p \in Pixels : p # Sparse(denseIndex)
                                       => recallBuffer'[p + 1] = recallBuffer[p + 1])]_vars
    /\ []((pc = "slots" /\ sampleIndex = 0)
            => (recallTotal = 0 /\ \A di \in DenseRange : recallAccumulator[di + 1] = 0))
    /\ [](SweepDone =>
            \A di \in DenseRange :
                /\ Recall(di) = RecallValue(recallAccumulator[di + 1], recallTotal)
                /\ recallAccumulator[di + 1] = 0 => Recall(di) = RatMinusOne)

\* a second sweep is complete, a dense pixel accumulated nothing in it while
\* another slot learned, and the pixel holds -1
C3_Witness ==
    /\ SweepDone
    /\ sweepCount >= 2
    /\ \E s \in Slots : updated[s]
    /\ \E di \in DenseRange : recallAccumulator[di + 1] = 0 /\ Recall(di) = RatMinusOne

\* ---- C4 ----
\* C4 as claimed: a sweep in which every slot's motion is 0 sets no learn flag
\* and its publish loop leaves the recall buffer as it was.
C4_ZeroMotionLeavesRecall ==
    [][(pc = "publish" /\ AllMotionZero)
         => (NoLearnFlag /\ recallBuffer' = recallBuffer)]_vars

\* C4 as amended: in a sweep in which every slot's motion is 0, a learn flag
\* is set only for a slot whose draw u was exactly 0, recallTotal stays 0, and
\* the publish loop sets every dense pixel to -1 instead of keeping its value.
C4_ZeroMotionPublishesMinusOne ==
    /\ (pc \in {"slots", "publish"} /\ sampleIndex > 0
          /\ motion[sampleIndex - 1] = 0 /\ learnFlags[sampleIndex - 1]) => u = 0
    /\ (pc = "publish" /\ AllMotionZero) => recallTotal = 0
    /\ (SweepDone /\ AllMotionZero) => \A di \in DenseRange : Recall(di) = RatMinusOne

\* the first sweep is complete with motion 0 in every slot, a slot was
\* nevertheless updated, and a dense pixel went from the default 0 to -1
C4_Witness ==
    /\ SweepDone
    /\ sweepCount = 1
    /\ AllMotionZero
    /\ \E s \in Slots : learnFlags[s] /\ updated[s]
    /\ \E di \in DenseRange : Recall(di) = RatMinusOne

\* ---- C5 ----
\* C5: a sweep that ends with recallTotal = 0 has scale 0 and publishes
\* exactly -1 for every dense pixel.
C5_ZeroTotalPublishesMinusOne ==
    (SweepDone /\ recallTotal = 0) =>
        /\ RecallScale(recallTotal) = RatZero
        /\ \A di \in DenseRange : Recall(di) = RatMinusOne

\* a complete sweep whose total is 0 although a dense pixel accumulated
\* evidence (opposite evidence cancelled), and that pixel holds -1
C5_Witness ==
    /\ SweepDone
    /\ recallTotal = 0
    /\ \E di \in DenseRange : recallAccumulator[di + 1] # 0 /\ Recall(di) = RatMinusOne

\* ---- C6 ----
\* one of the three initialization steps of start() failed
InitFailed == startResult \in {"open_failed", "truncate_failed", "map_failed"}

\* C6: when opening, resizing or mapping the backing file fails, the learn
\* thread is never started and the recall buffer stays all zero.
C6_FailureDisablesEngine ==
    InitFailed => (~learnThread /\ \A p \in Pixels : recallBuffer[p + 1] = RatZero)

\* ---- C7 ----
\* start() has run on an existing file whose length is not that of the grid
WrongSizeFile ==
    /\ startResult # "none"
    /\ origFile.exists
    /\ Len(origFile.cells) # kSamples * denseSize

\* C7: start() on an existing backing file of the wrong length disables the
\* engine and leaves the file's length and contents as they were.
C7_WrongSizeRejected ==
    WrongSizeFile => (~learnThread /\ file = origFile)

\* ---- C8 ----
\* C8: after a completed sweep a slot's learn flag is set exactly if a
\* learning update was applied to that slot's cells in that sweep.
C8_FlagMeansUpdate ==
    SweepDone => \A s \in Slots : learnFlags[s] <=> updated[s]

\* ---- C9 ----
\* C9: a slot whose motion read in this sweep is at least kMotionThreshold has
\* its learn flag set, whatever the draw and the other slots' motion.
C9_ThresholdAlwaysLearns ==
    \A s \in Slots : motion[s] >= kMotionThreshold => learnFlags[s]

\* a slot at the threshold learned on a non-zero draw while the other slots,
\* with motion 0, did not
C9_Witness ==
    /\ pc = "publish"
    /\ u > 0
    /\ motion[kSamples - 1] >= kMotionThreshold
    /\ learnFlags[kSamples - 1]
    /\ \A s \in Slots : s # kSamples - 1 => (motion[s] = 0 /\ ~learnFlags[s])

\* ---- C10 ----
\* C10: every sweep that entered its slot loop eventually reaches its publish
\* step, whatever the delayed-frame lookup returns.
C10_SweepReachesPublish == (pc = "slots") ~> (pc = "publish")

\* ---- C11 ----
\* C11: once start() has run, recallBuffer has one entry per pixel of the
\* sparse pixel space and the entry of every unmapped pixel is 0, in every
\* state of every sweep and publish loop.
C11_UnmappedStayZero ==
    startResult # "none" =>
        /\ Len(recallBuffer) = TotalPixels
        /\ \A p \in Pixels : ~pixelInfo[p] => recallBuffer[p + 1] = RatZero

\* a sweep was published on a mapping with an unmapped pixel: a mapped pixel
\* holds a published value and the unmapped one still holds 0
C11_Witness ==
    /\ SweepDone
    /\ \E p \in Pixels : ~pixelInfo[p] /\ recallBuffer[p + 1] = RatZero
    /\ \E di \in DenseRange : Recall(di) # RatZero

\* ---- C12 ----
\* C12: inside the publish loop the recall buffer is a mix that any reader
\* can see: the dense pixels below denseIndex hold this sweep's values, the
\* others hold what they held before the loop (0 during the first sweep).
C12_PartialPublishVisible ==
    pc = "publish" =>
        /\ \A di \in DenseRange :
              di < denseIndex => Recall(di) = RecallValue(recallAccumulator[di + 1], recallTotal)
        /\ sweepCount = 0 => \A di \in DenseRange : di >= denseIndex => Recall(di) = RatZero

\* in the publish loop of a later sweep, dense pixel 0 holds the new value
\* while a pixel not yet reached holds a value published by the sweep before,
\* different from the one this sweep is about to write
C12_Witness ==
    /\ pc = "publish"
    /\ sweepCount >= 1
    /\ 0 < denseIndex /\ denseIndex < denseSize
    /\ Recall(0) = RecallValue(recallAccumulator[1], recallTotal)
    /\ Recall(denseIndex) # RatZero
    /\ Recall(denseIndex) # RecallValue(recallAccumulator[denseIndex + 1], recallTotal)

\* ---- C13 ----
\* C13: once the learn thread exists, a step that changes the cell grid, the
\* recall buffer or the learn flags is a step of the learn worker (it leaves
\* the feature buffers of process() and the image of debug() alone), and the
\* thread exists only with the buffers sized and the mapping established.
C13_OnlyWorkerWrites ==
    /\ [][(learnThread /\ (file' # file \/ recallBuffer' # recallBuffer
                            \/ learnFlags' # learnFlags))
            => (/\ pc \in {"slots", "publish"}
                /\ sobelMotion' = sobelMotion
                /\ luminanceBuffer' = luminanceBuffer
                /\ image' = image)]_vars
    /\ [](learnThread =>
            (/\ Len(recallBuffer) = TotalPixels
             /\ Len(recallAccumulator) = denseSize
             /\ mappedMemorySize = kSamples * denseSize
             /\ mappedMemory = "mapped"))

C15_ZeroGridImageBlack ==
    (image # <<>> /\ \A c \in 1 .. Len(file.cells) : file.cells[c] = ZeroCell)
        => \A c \in 1 .. Len(image) : image[c] = <<0, 0, 0>>

\* ---- C16 ----
\* C16: after every start(), the first or a repeated one, the entries of
\* denseToSparsePixelIndex are exactly the mapped pixels: as many entries as
\* mapped pixels, strictly increasing, each in [0, TotalPixels).
C16_DenseIndexExact ==
    startResult # "none" =>
        /\ denseSize = Cardinality({p \in Pixels : pixelInfo[p]})
        /\ \A di \in DenseRange : Sparse(di) \in Pixels /\ pixelInfo[Sparse(di)]
        /\ \A di \in DenseRange : di + 1 < denseSize => Sparse(di) < Sparse(di + 1)
        /\ \A p \in Pixels : pixelInfo[p] => \E di \in DenseRange : Sparse(di) = p

\* a second start() succeeded after a first one that created the file and
\* failed to resize it (only then is the file found existing and empty), on
\* a pixel list with a mapped pixel after an unmapped one
C16_Witness ==
    /\ startResult = "ok"
    /\ origFile.exists
    /\ Len(origFile.cells) = 0
    /\ denseSize > 0
    /\ Sparse(0) > 0

\* ---- C17 ----
\* the fixed point x / kShortTermPermeability of the short-term update
FixedPoint(x) == x * kShortTermPermeabilityInv

\* C17: after NumUpdates updates with a constant reinforcement x > 0,
\* shortTerm is within 1% of the fixed point x / pShort, whatever the cell
\* started from (for x = 0.5 from a zero cell: within 1% of 5.0); with x = 0
\* it has decayed to less than the resolution of the arithmetic.
C17_ShortTermFixedPoint ==
    updates = NumUpdates =>
        /\ cellInput > 0 =>
              Abs(cell.shortTerm - FixedPoint(cellInput)) * 100 <= FixedPoint(cellInput)
        /\ cellInput = 0 => Abs(cell.shortTerm) < kShortTermPermeabilityInv

\* the run of the claim: x = 0.5 on a zero cell, NumUpdates updates, and
\* shortTerm within 1% of 5.0
C17_Witness ==
    /\ updates = NumUpdates
    /\ cellStart = ZeroCell
    /\ cellInput = Scale \div 2
    /\ Abs(cell.shortTerm - 5 * Scale) * 100 <= 5 * Scale

\* ---- C18 ----
\* |shortTerm - longTerm| of a cell
Gap(c) == Abs(c.shortTerm - c.longTerm)

\* C18 as claimed: under a constant reinforcement |shortTerm - longTerm|
\* never grows from one update to the next, for every initial cell.
C18_GapMonotone ==
    [][Gap(cell') <= Gap(cell)]_vars

\* C18 as amended: each update moves longTerm toward the shortTerm it has just
\* computed and not past it, and the difference does not grow on an update
\* that leaves shortTerm where it was.
C18_LongTermFollows ==
    [][updates' = updates + 1 =>
         LET r == cell'.shortTerm - cell.longTerm
         IN  /\ Gap(cell') <= Abs(r)
             /\ (cell'.longTerm - cell.longTerm) * r >= 0
             /\ cell'.shortTerm = cell.shortTerm => Gap(cell') <= Gap(cell)]_vars

\* a cell that started at zero: longTerm has left 0 toward shortTerm and is
\* still below it, so the difference grew from 0
C18_Witness ==
    /\ cellStart = ZeroCell
    /\ updates > 0
    /\ cell.longTerm > 0
    /\ cell.longTerm < cell.shortTerm

\* ---- C19 ----
\* the cells of the file that do not belong to sample slot s
OtherSlotCells(s) == {c \in 1 .. Len(file.cells) : (c - 1) \div denseSize # s}

\* C19: a step taken while the worker is at sample slot sampleIndex leaves the
\* cells of every other slot as they were; if it does not run the slot's cell
\* loop (gate not passed, or no delayed frame) it leaves the whole grid,
\* recallAccumulator and recallTotal as they were; and the cell loop runs
\* only for a slot whose learn flag was set.
C19_SlotIsolation ==
    [][pc = "slots" =>
         /\ Len(file'.cells) = Len(file.cells)
         /\ \A c \in OtherSlotCells(sampleIndex) : file'.cells[c] = file.cells[c]
         /\ ~updated'[sampleIndex] =>
               (/\ file' = file
                /\ recallAccumulator' = recallAccumulator
                /\ recallTotal' = recallTotal)
         /\ ~learnFlags'[sampleIndex] => ~updated'[sampleIndex]]_vars

\* at the end of the slot loop: one slot passed the gate and found no frame,
\* its cells are as in the file start() found, and another slot was updated
C19_Witness ==
    /\ pc = "publish"
    /\ sweepCount = 0
    /\ mappedMemory = "mapped"
    /\ Len(origFile.cells) = kSamples * denseSize
    /\ \E s \in Slots :
          /\ learnFlags[s] /\ ~updated[s]
          /\ \A di \in DenseRange :
                file.cells[CellIndex(s, di) + 1] = origFile.cells[CellIndex(s, di) + 1]
    /\ \E t \in Slots :
          /\ updated[t]
          /\ \E di \in DenseRange :
                file.cells[CellIndex(t, di) + 1] # origFile.cells[CellIndex(t, di) + 1]

\* ---- C20 ----
\* C20: in a sweep whose cell loop ran, every index the worker used is in
\* bounds: the recallAccumulator index below denseSize, the cell index below
\* the mapped cell count, the recallBuffer index and the index into the
\* frame's colors below the total pixel count.
C20_AccessesInBounds ==
    (\E s \in Slots : updated[s]) =>
        \A di \in DenseRange :
            /\ AccumulatorIndex(di, Sparse(di)) < denseSize
            /\ AccumulatorIndex(di, Sparse(di)) < Len(recallAccumulator)
            /\ di < Len(recallAccumulator)
            /\ \A s \in Slots : CellIndex(s, di) < mappedMemorySize
            /\ PublishIndex(di) < Len(recallBuffer)
            /\ Sparse(di) < TotalPixels

\* ---- C21 ----
\* the state that follows s in the story
StoryNext(s) == IF s \in NormalStates THEN s + 10 ELSE IF s = 0 THEN 10 ELSE 0

\* C21: from 0, from a state without a case and from every normal state,
\* script() returns, and its result is the next state of the story
\* 0, 10, 20, 30, 40, 50, 60, 70, 0, ...; a debug state (1 to 6) is never
\* returned; in state 50 symmetry is set to 10 and then only decremented by
\* one, and the state is left with symmetry 4.
C21_StoryCycle ==
    /\ [][narratorState' # narratorState => narratorState' = StoryNext(narratorState)]_vars
    /\ [][narratorState' \in DebugStates => narratorState' = narratorState]_vars
    /\ \A s \in StartStates \ DebugStates :
          (narratorState = s) ~> (narratorState = StoryNext(s))
    /\ [][(narratorState = 50 /\ symmetry' # symmetry)
            => (symmetry' = 10 \/ (scriptPc = "order" /\ symmetry' = symmetry - 1))]_vars
    /\ [](narratorState = 50 /\ scriptPc = "order" => symmetry \in 4 .. 10)
    /\ [][(narratorState = 50 /\ narratorState' # 50) => (symmetry = 4 /\ symmetry' = 4)]_vars

\* script() is about to be called with 0 after a lap of the story: symmetry
\* is the 4 of state 50 and the precursor of state 10 is done
C21_Witness ==
    /\ narratorState = 0
    /\ scriptPc = "call"
    /\ symmetry = 4
    /\ precursorDone

\* ---- C22 ----
\* C22: in one runStep the displacement of a pair of distinct particles is
\* applied at most once, and only with the lower-indexed particle as the
\* visitor, and no particle is displaced against itself.
C22_EachPairOnce ==
    /\ \A a \in Particles : \A b \in Particles :
          a < b => (applied[a, b] + applied[b, a] <= 1 /\ applied[b, a] = 0)
    /\ \A a \in Particles : applied[a, a] = 0

====
